---- MODULE Spec2Model ----
(***************************************************************************)
(* Model of package tasker (src/unnamed/part_000): the default task queue  *)
(* tq, its worker goroutine(s) running TaskQueue.Loop, concurrent calls of *)
(* the package-level Enqueue and Close.                                    *)
(*                                                                         *)
(* Every call of Enqueue and of Close is a process with a program counter  *)
(* that walks through the statements of the function.  The unbuffered      *)
(* channel tq.tc has no state of its own apart from being open or closed:  *)
(* a send and a receive complete together, in one step (Handoff).          *)
(*                                                                         *)
(* The other parts of the repository are modelled further down, each with  *)
(* variables and a specification of its own: the inventory comparison      *)
(* (src/packages/inventory_comporator.go) under CompareSpec, the scan      *)
(* result deconstruction (src/unnamed/part_001) under ScanSpec, the        *)
(* command runner under RunSpec and the atomic file write under WriteSpec  *)
(* (both of package util, whose tests are in src/util/util_test.go).  The  *)
(* variables of one part keep their initial values under the               *)
(* specifications of the other parts.                                      *)
(***************************************************************************)
EXTENDS Naturals, Integers, Sequences, FiniteSets, TLC

\* Number of Enqueue calls (each by its own goroutine), of goroutines that
\* call Close, of Close calls one such goroutine makes one after the other,
\* and of goroutines the model can hold for TaskQueue.Loop.
NumEnq == 2
NumClose == 1
MaxCloseCalls == 2
NumWorkers == 2

Enqs == 1..NumEnq
Closers == 1..NumClose
Workers == 1..NumWorkers

\* "no task": the value of a worker's loop variable t outside the loop body.
NoTask == 0

VARIABLES
    epc,        \* epc[e]: position of Enqueue call e
    cpc,        \* cpc[c]: position of goroutine c in its current Close call
    ncalls,     \* ncalls[c]: number of Close calls goroutine c has made
    wpc,        \* wpc[w]: position of goroutine w in TaskQueue.Loop
    cur,        \* cur[w]: the task worker w holds in its loop variable t
    mx,         \* tq.mx: <<"free", 0>>, <<"enq", e>> or <<"close", c>>
    closed,     \* tq.tc has been closed
    wg,         \* counter of tq.wg
    onceDone,   \* once has fired
    started,    \* sequence of tasks in the order their t.run() began
    finished,   \* sequence of tasks in the order their t.run() returned
    retBefore,  \* retBefore[e]: Enqueue calls that had returned when e was invoked
    closedAtCall, \* closedAtCall[e]: a Close held tq.mx when e was invoked
    retAtClose, \* retAtClose[c]: Enqueue calls that had returned when c's call was made
    inflightAtClose, \* inflightAtClose[c]: tasks being handed off or run at that moment
    closeHeldAtCall, \* closeHeldAtCall[c]: a Close call held tq.mx at that moment
    handed,     \* sequence of tasks in the order the workers received them
    \* compareExtractedPackages
    legacy,     \* argument legacyExtractor: a sequence of package records
    modern,     \* argument modernExtractor
    report,     \* the comparisonResults returned, NoReport before the call
    \* ScalibrExtractor.ExtractInventory
    scan,       \* the *scalibr.ScanResult returned by Scan, NoScan before
    out,        \* what deconstructScanResult returned, NoOut before the call
    \* DefaultRunner.Run
    cmd,        \* the *exec.Cmd given to Run, NoCmd before
    proc,       \* the process: where it is, what it wrote, how it exited
    bufs,       \* the stdout and stderr buffers Run attached to the command
    ret,        \* what Run returned, NoRet before it returns
    \* AtomicWrite
    prior,      \* the file at the target path before any call
    target,     \* the file at the target path
    tmp,        \* tmp[w]: the temporary file of call w
    wr,         \* wr[w]: position, content, error and system calls of call w
    lastRename, \* the call whose rename onto the path came last, 0 if none
    seen,       \* what the last read of the path returned, NotRead before
    \* SanitizePath
    path,       \* the argument of SanitizePath, a sequence of path tokens
    sanitized,  \* what SanitizePath returned, NoSan before the call
    \* run (package packages)
    runner,     \* the installed command runner: what its Run returns
    hcall,      \* the call of run: position, cmd, args, what Run returned
    invoked,    \* the calls of Run made, with the runner that received them
    hret,       \* what run returned, NoHRet before it returns
    \* Enqueue or Close called by a task from inside its action
    npc,        \* npc[w]: position of the call made by the task worker w runs
    nestStart   \* nestStart[w]: the tasks that had started when it was made

qvars == <<epc, cpc, ncalls, wpc, cur, mx, closed, wg, onceDone, started, finished,
           retBefore, closedAtCall, retAtClose, inflightAtClose, closeHeldAtCall,
           handed>>

cmpVars == <<legacy, modern, report>>

scanVars == <<scan, out>>

runVars == <<cmd, proc, bufs, ret>>

fsVars == <<prior, target, tmp, wr, lastRename, seen>>

\* The variables the task queue leaves alone.
sanVars == <<path, sanitized>>

helpVars == <<runner, hcall, invoked, hret>>

nestVars == <<npc, nestStart>>

\* The variables of the other parts of the repository.
nonQueue == <<cmpVars, scanVars, runVars, fsVars, sanVars, helpVars>>

\* The variables the task queue leaves alone.
other == <<nonQueue, nestVars>>

vars == <<qvars, other>>

hist == <<retBefore, closedAtCall, retAtClose, inflightAtClose, closeHeldAtCall>>

Free == <<"free", 0>>

Range(s) == {s[i] : i \in 1..Len(s)}

\* The tasks some worker has received and not finished running.
Held == {cur[w] : w \in {v \in Workers : wpc[v] \in {"got", "run"}}}

NoReport == [called |-> FALSE]

\* No comparison has been asked for.
CmpIdle ==
    /\ legacy = <<>>
    /\ modern = <<>>
    /\ report = NoReport

NoScan == <<>>

NoOut == [called |-> FALSE]

\* No scan has been made.
ScanIdle ==
    /\ scan = NoScan
    /\ out = NoOut

NoCmd == <<>>

NoProc == [pc |-> "none", out |-> <<>>, err |-> <<>>, code |-> 0]

NoBufs == [stdout |-> <<>>, stderr |-> <<>>]

NoRet == [called |-> FALSE]

\* No command has been run.
RunIdle ==
    /\ cmd = NoCmd
    /\ proc = NoProc
    /\ bufs = NoBufs
    /\ ret = NoRet

\* Number of AtomicWrite calls to the path, each by its own goroutine.
NumWriters == 2

Writers == 1..NumWriters

NoFile == [exists |-> FALSE]

File(data) == [exists |-> TRUE, data |-> data]

NoFault == [op |-> "none"]

IdleWriter == [pc |-> "idle", content |-> <<>>, err |-> NoFault, fault |-> NoFault,
               creates |-> 0, renames |-> 0]

NotRead == [called |-> FALSE]

\* No AtomicWrite has been called and the path does not exist.
FsIdle ==
    /\ prior = NoFile
    /\ target = NoFile
    /\ tmp = [w \in Writers |-> NoFile]
    /\ wr = [w \in Writers |-> IdleWriter]
    /\ lastRename = 0
    /\ seen = NotRead

NoSan == [called |-> FALSE]

\* SanitizePath has not been called.
SanIdle ==
    /\ path = <<>>
    /\ sanitized = NoSan

NoRunner == [set |-> FALSE]

NoCall == [pc |-> "idle"]

NoHRet == [called |-> FALSE]

\* run has not been called.
HelpIdle ==
    /\ runner = NoRunner
    /\ hcall = NoCall
    /\ invoked = <<>>
    /\ hret = NoHRet

\* No task has called Enqueue or Close.
NestIdle ==
    /\ npc = [w \in Workers |-> "none"]
    /\ nestStart = [w \in Workers |-> <<>>]

\* var once, tq = NewTaskQueue(): an open unbuffered channel, a zero
\* WaitGroup, an unlocked Mutex, no goroutine.
QInit ==
    /\ epc = [e \in Enqs |-> "idle"]
    /\ cpc = [c \in Closers |-> "idle"]
    /\ ncalls = [c \in Closers |-> 0]
    /\ wpc = [w \in Workers |-> "none"]
    /\ cur = [w \in Workers |-> NoTask]
    /\ mx = Free
    /\ closed = FALSE
    /\ wg = 0
    /\ onceDone = FALSE
    /\ started = <<>>
    /\ finished = <<>>
    /\ retBefore = [e \in Enqs |-> {}]
    /\ closedAtCall = [e \in Enqs |-> FALSE]
    /\ retAtClose = [c \in Closers |-> {}]
    /\ inflightAtClose = [c \in Closers |-> {}]
    /\ closeHeldAtCall = [c \in Closers |-> FALSE]
    /\ handed = <<>>

Init ==
    QInit /\ NestIdle /\ CmpIdle /\ ScanIdle /\ RunIdle /\ FsIdle /\ SanIdle /\ HelpIdle

----------------------------------------------------------------------------
\* TaskQueue.Loop, run by goroutine w.

\* tq.wg.Add(1), executed by the new goroutine itself: until this step the
\* counter does not count the worker.
LoopAdd(w) ==
    /\ wpc[w] = "add"
    /\ wpc' = [wpc EXCEPT ![w] = "range"]
    /\ wg' = wg + 1
    /\ UNCHANGED <<other, epc, cpc, ncalls, cur, mx, closed, onceDone, started, finished, hist, handed>>

\* t.run() begins
LoopRunStart(w) ==
    /\ wpc[w] = "got"
    /\ wpc' = [wpc EXCEPT ![w] = "run"]
    /\ started' = Append(started, cur[w])
    /\ UNCHANGED <<other, epc, cpc, ncalls, cur, mx, closed, wg, onceDone, finished, hist, handed>>

\* t.run() returns; the loop goes back to receive from tq.tc
LoopRunEnd(w) ==
    /\ wpc[w] = "run"
    /\ wpc' = [wpc EXCEPT ![w] = "range"]
    /\ finished' = Append(finished, cur[w])
    /\ cur' = [cur EXCEPT ![w] = NoTask]
    /\ UNCHANGED <<other, epc, cpc, ncalls, mx, closed, wg, onceDone, started, hist, handed>>

\* range over the closed channel ends; the deferred tq.wg.Done() runs
LoopExit(w) ==
    /\ wpc[w] = "range"
    /\ closed
    /\ wpc' = [wpc EXCEPT ![w] = "exited"]
    /\ wg' = wg - 1
    /\ UNCHANGED <<other, epc, cpc, ncalls, cur, mx, closed, onceDone, started, finished, hist, handed>>

----------------------------------------------------------------------------
\* func Enqueue and TaskQueue.Enqueue, call e.  The task of call e is e.

\* the call is made
EnqCall(e) ==
    /\ epc[e] = "idle"
    /\ epc' = [epc EXCEPT ![e] = "once"]
    /\ retBefore' = [retBefore EXCEPT ![e] = {d \in Enqs : epc[d] = "done"}]
    /\ closedAtCall' = [closedAtCall EXCEPT ![e] = (mx[1] = "close")]
    /\ UNCHANGED <<other, cpc, ncalls, wpc, cur, mx, closed, wg, onceDone, started, finished,
                   retAtClose, inflightAtClose, closeHeldAtCall, handed>>

\* OnceDo without the once: every call starts a goroutine for tq.Loop.
MutOnceDoEveryCall(e) ==
    /\ epc[e] = "once"
    /\ epc' = [epc EXCEPT ![e] = "lock"]
    /\ onceDone' = TRUE
    /\ IF \E w \in Workers : wpc[w] = "none"
         THEN \E w \in Workers :
                 /\ wpc[w] = "none"
                 /\ \A v \in Workers : wpc[v] = "none" => w <= v
                 /\ wpc' = [wpc EXCEPT ![w] = "add"]
         ELSE UNCHANGED wpc
    /\ UNCHANGED <<other, cpc, ncalls, cur, mx, closed, wg, started, finished, hist, handed>>

\* once.Do(func() { go tq.Loop(ctx) })
OnceDo(e) ==
    /\ epc[e] = "once"
    /\ epc' = [epc EXCEPT ![e] = "lock"]
    /\ IF onceDone
         THEN UNCHANGED <<wpc, onceDone>>
         ELSE /\ onceDone' = TRUE
              /\ \E w \in Workers :
                    /\ wpc[w] = "none"
                    /\ \A v \in Workers : wpc[v] = "none" => w <= v
                    /\ wpc' = [wpc EXCEPT ![w] = "add"]
    /\ UNCHANGED <<other, cpc, ncalls, cur, mx, closed, wg, started, finished, hist, handed>>

\* EnqLock without the mutex: the send is not inside a critical section.
MutEnqLockNoMutex(e) ==
    /\ epc[e] = "lock"
    /\ mx' = <<"enq", e>>
    /\ epc' = [epc EXCEPT ![e] = "send"]
    /\ UNCHANGED <<other, cpc, ncalls, wpc, cur, closed, wg, onceDone, started, finished, hist, handed>>

\* tq.mx.Lock()
EnqLock(e) ==
    /\ epc[e] = "lock"
    /\ mx = Free
    /\ mx' = <<"enq", e>>
    /\ epc' = [epc EXCEPT ![e] = "send"]
    /\ UNCHANGED <<other, cpc, ncalls, wpc, cur, closed, wg, onceDone, started, finished, hist, handed>>

\* Handoff that loses the task: the send completes and the worker keeps waiting.
MutHandoffDrop(e, w) ==
    /\ epc[e] = "send"
    /\ wpc[w] = "range"
    /\ ~closed
    /\ epc' = [epc EXCEPT ![e] = "unlock"]
    /\ handed' = Append(handed, e)
    /\ UNCHANGED <<other, cpc, ncalls, wpc, cur, mx, closed, wg, onceDone, started, finished, hist>>

\* tq.tc <- &task{...} meets the receive of "for t := range tq.tc" in worker w.
\* A send on a closed channel hands nothing over (Go panics): the state
\* "an Enqueue at its send and the channel closed" has no step of its own.
Handoff(e, w) ==
    /\ epc[e] = "send"
    /\ wpc[w] = "range"
    /\ ~closed
    /\ epc' = [epc EXCEPT ![e] = "unlock"]
    /\ wpc' = [wpc EXCEPT ![w] = "got"]
    /\ cur' = [cur EXCEPT ![w] = e]
    /\ handed' = Append(handed, e)
    /\ UNCHANGED <<other, cpc, ncalls, mx, closed, wg, onceDone, started, finished, hist>>

\* EnqUnlock that returns only when the call's own task has run.
MutEnqUnlockAwaitsTask(e) ==
    /\ epc[e] = "unlock"
    /\ e \in Range(finished)
    /\ mx' = Free
    /\ epc' = [epc EXCEPT ![e] = "done"]
    /\ UNCHANGED <<other, cpc, ncalls, wpc, cur, closed, wg, onceDone, started, finished, hist, handed>>

\* tq.mx.Unlock(); the call returns
EnqUnlock(e) ==
    /\ epc[e] = "unlock"
    /\ mx' = Free
    /\ epc' = [epc EXCEPT ![e] = "done"]
    /\ UNCHANGED <<other, cpc, ncalls, wpc, cur, closed, wg, onceDone, started, finished, hist, handed>>

----------------------------------------------------------------------------
\* func Close and TaskQueue.Close, called by goroutine c; when a call has
\* returned the goroutine may call Close again.

\* the call is made
CloseCall(c) ==
    /\ cpc[c] \in {"idle", "done"}
    /\ ncalls[c] < MaxCloseCalls
    /\ ncalls' = [ncalls EXCEPT ![c] = @ + 1]
    /\ cpc' = [cpc EXCEPT ![c] = "lock"]
    /\ retAtClose' = [retAtClose EXCEPT ![c] = {e \in Enqs : epc[e] = "done"}]
    /\ inflightAtClose' = [inflightAtClose EXCEPT ![c] =
            {e \in Enqs : epc[e] \in {"send", "unlock"}} \cup Held]
    /\ closeHeldAtCall' = [closeHeldAtCall EXCEPT ![c] = (mx[1] = "close")]
    /\ UNCHANGED <<other, epc, wpc, cur, mx, closed, wg, onceDone, started, finished,
                   retBefore, closedAtCall, handed>>

\* CloseLock without the mutex: close(tq.tc) is not inside a critical section.
MutCloseLockNoMutex(c) ==
    /\ cpc[c] = "lock"
    /\ UNCHANGED mx
    /\ cpc' = [cpc EXCEPT ![c] = "close"]
    /\ UNCHANGED <<other, epc, ncalls, wpc, cur, closed, wg, onceDone, started, finished, hist, handed>>

\* tq.mx.Lock()
CloseLock(c) ==
    /\ cpc[c] = "lock"
    /\ mx = Free
    /\ mx' = <<"close", c>>
    /\ cpc' = [cpc EXCEPT ![c] = "close"]
    /\ UNCHANGED <<other, epc, ncalls, wpc, cur, closed, wg, onceDone, started, finished, hist, handed>>

\* close(tq.tc)
CloseChan(c) ==
    /\ cpc[c] = "close"
    /\ closed' = TRUE
    /\ cpc' = [cpc EXCEPT ![c] = "wait"]
    /\ UNCHANGED <<other, epc, ncalls, wpc, cur, mx, wg, onceDone, started, finished, hist, handed>>

\* CloseWait without the wait: Close returns right after close(tq.tc).
MutCloseWaitNoWait(c) ==
    /\ cpc[c] = "wait"
    /\ cpc' = [cpc EXCEPT ![c] = "done"]
    /\ UNCHANGED <<other, epc, ncalls, wpc, cur, mx, closed, wg, onceDone, started, finished, hist, handed>>

\* CloseWait that unlocks tq.mx when Close returns.
MutCloseWaitUnlock(c) ==
    /\ cpc[c] = "wait"
    /\ wg = 0
    /\ mx' = Free
    /\ cpc' = [cpc EXCEPT ![c] = "done"]
    /\ UNCHANGED <<other, epc, ncalls, wpc, cur, closed, wg, onceDone, started, finished, hist, handed>>

\* tq.wg.Wait() returns; the call returns without unlocking tq.mx
CloseWait(c) ==
    /\ cpc[c] = "wait"
    /\ wg = 0
    /\ cpc' = [cpc EXCEPT ![c] = "done"]
    /\ UNCHANGED <<other, epc, ncalls, wpc, cur, mx, closed, wg, onceDone, started, finished, hist, handed>>

----------------------------------------------------------------------------
Next ==
    \/ \E e \in Enqs : EnqCall(e)
    \/ \E e \in Enqs : OnceDo(e)
    \/ \E e \in Enqs : EnqLock(e)
    \/ \E e \in Enqs, w \in Workers : Handoff(e, w)
    \/ \E e \in Enqs : EnqUnlock(e)
    \/ \E c \in Closers : CloseCall(c)
    \/ \E c \in Closers : CloseLock(c)
    \/ \E c \in Closers : CloseChan(c)
    \/ \E c \in Closers : CloseWait(c)
    \/ \E w \in Workers : LoopAdd(w)
    \/ \E w \in Workers : LoopRunStart(w)
    \/ \E w \in Workers : LoopRunEnd(w)
    \/ \E w \in Workers : LoopExit(w)

Spec == Init /\ [][Next]_vars

\* The Go scheduler runs every goroutine that can take a step; a call that
\* has not been made need never be made.
Fairness ==
    /\ \A e \in Enqs : WF_vars(OnceDo(e)) /\ WF_vars(EnqLock(e)) /\ WF_vars(EnqUnlock(e))
    /\ \A e \in Enqs : \A w \in Workers : WF_vars(Handoff(e, w))
    /\ \A c \in Closers : WF_vars(CloseLock(c)) /\ WF_vars(CloseChan(c)) /\ WF_vars(CloseWait(c))
    /\ \A w \in Workers : WF_vars(LoopAdd(w)) /\ WF_vars(LoopRunStart(w))
    /\ \A w \in Workers : WF_vars(LoopRunEnd(w)) /\ WF_vars(LoopExit(w))

FairSpec == Spec /\ Fairness

TypeOK ==
    /\ epc \in [Enqs -> {"idle", "once", "lock", "send", "unlock", "done"}]
    /\ cpc \in [Closers -> {"idle", "lock", "close", "wait", "done"}]
    /\ ncalls \in [Closers -> 0..MaxCloseCalls]
    /\ wpc \in [Workers -> {"none", "add", "range", "got", "run", "exited"}]
    /\ cur \in [Workers -> Enqs \cup {NoTask}]
    /\ closed \in BOOLEAN
    /\ onceDone \in BOOLEAN
    /\ wg \in 0..NumWorkers

----------------------------------------------------------------------------
\* Helpers of the properties.

\* The place of x in the sequence s (x occurs in s).
Pos(s, x) == CHOOSE i \in 1..Len(s) : s[i] = x

\* No element occurs twice in s.
NoDup(s) == \A i, j \in 1..Len(s) : i # j => s[i] # s[j]

\* Enqueue calls whose send has completed.
HandedOff == {e \in Enqs : epc[e] \in {"unlock", "done"}}

\* Goroutines that have been started for tq.Loop.
Spawned == {w \in Workers : wpc[w] # "none"}

----------------------------------------------------------------------------
\* C1: tasks enqueued by sequential Enqueue calls (each made after the
\* previous one returned) run in the order of the calls, and each task is
\* run exactly once: no task starts or finishes twice, a task whose send
\* completed is either held by the worker or has finished (it is never
\* lost), and a task whose Enqueue was invoked after another Enqueue
\* returned starts only after that other task has finished.
C1_FifoExactlyOnce ==
    /\ NoDup(started)
    /\ NoDup(finished)
    /\ \A e \in HandedOff : (e \in Held) # (e \in Range(finished))
    /\ \A e \in (Range(started) \cup Held) : e \in HandedOff
    /\ \A e2 \in Range(started) : \A e1 \in retBefore[e2] :
          /\ e1 \in Range(started)
          /\ Pos(started, e1) < Pos(started, e2)
          /\ e1 \in Range(finished)

\* All NumEnq tasks were enqueued one call after the other and have all run.
C1_Witness ==
    /\ Len(finished) = NumEnq
    /\ \A i \in 1..(NumEnq - 1) : finished[i] \in retBefore[finished[i + 1]]

\* C2: when a Close call has returned, every task whose Enqueue had returned
\* when that Close was invoked has finished, and so has every task that was
\* running or being handed off (its Enqueue inside the critical section) at
\* that moment.
C2_CloseWaitsForTasks ==
    \A c \in Closers : cpc[c] = "done" =>
        (retAtClose[c] \cup inflightAtClose[c]) \subseteq Range(finished)

\* A Close returned that was called when one Enqueue had returned and the
\* task of another Enqueue was being handed off or run.
C2_Witness ==
    \E c \in Closers :
        /\ cpc[c] = "done"
        /\ retAtClose[c] # {}
        /\ inflightAtClose[c] \ retAtClose[c] # {}

\* C3: no Enqueue is at its send while the channel is closed (a send on a
\* closed channel, or a close under a blocked sender, panics in Go).
C3_NoSendOnClosedChannel ==
    \A e \in Enqs : epc[e] = "send" => ~closed

\* Enqueue and Close raced: an Enqueue invoked before any Close held the
\* mutex waits for the mutex after the channel was closed.
C3_Witness ==
    /\ closed
    /\ \E e \in Enqs : epc[e] = "lock" /\ ~closedAtCall[e]

\* C4: at most one task action is running: at most one worker is inside
\* t.run(), and every task that started before the last one has finished.
C4_OneTaskAtATime ==
    /\ Cardinality({w \in Workers : wpc[w] = "run"}) <= 1
    /\ Len(started) - Len(finished) <= 1
    /\ \A i \in 1..(Len(started) - 1) : started[i] \in Range(finished)

\* A task runs while another producer is blocked in the send of Enqueue.
C4_Witness ==
    \E w \in Workers, e \in Enqs :
        /\ wpc[w] = "run"
        /\ epc[e] = "send"
        /\ cur[w] # e

\* C5: the worker loop of the default queue is started exactly once, by the
\* first once.Do: at most one goroutine ever runs tq.Loop, and exactly one
\* once any Enqueue is past once.Do.
C5_OneWorker ==
    /\ Cardinality(Spawned) <= 1
    /\ onceDone <=> (Spawned # {})
    /\ (\E e \in Enqs : epc[e] \notin {"idle", "once"}) => Cardinality(Spawned) = 1

\* Every Enqueue call is past once.Do, and they were all invoked before any
\* of them had returned (concurrent callers).
C5_Witness ==
    /\ \A e \in Enqs : epc[e] \notin {"idle", "once"} /\ retBefore[e] = {}
    /\ Cardinality(Spawned) = 1

\* C6: an Enqueue invoked while a Close holds the mutex (Close is past
\* tq.mx.Lock(), which it never undoes) does not get past tq.mx.Lock(): it
\* has not returned, and its task has been neither received nor run.
C6_EnqueueAfterCloseBlocks ==
    \A e \in Enqs : closedAtCall[e] =>
        /\ epc[e] \in {"once", "lock"}
        /\ e \notin Range(handed)
        /\ e \notin Range(started)
        /\ e \notin Held

\* An Enqueue made after Close had returned waits for the mutex.
C6_Witness ==
    \E e \in Enqs :
        /\ closedAtCall[e]
        /\ epc[e] = "lock"
        /\ \E c \in Closers : cpc[c] = "done" /\ mx = <<"close", c>>

\* C7: a Close call made while an earlier Close call holds the mutex (which
\* Close never unlocks) does not get past tq.mx.Lock(): it neither returns
\* nor closes the channel, so close(tq.tc) is never reached with the channel
\* already closed and at most one goroutine is ever past tq.mx.Lock() in Close.
C7_SecondCloseBlocks ==
    /\ \A c \in Closers : closeHeldAtCall[c] => cpc[c] = "lock"
    /\ \A c \in Closers : cpc[c] = "close" => ~closed
    /\ \A c \in Closers : cpc[c] \in {"close", "wait", "done"} =>
          /\ mx = <<"close", c>>
          /\ ncalls[c] = 1
    /\ Cardinality({c \in Closers : cpc[c] \in {"close", "wait", "done"}}) <= 1

\* A goroutine whose first Close call returned has called Close a second
\* time and waits for the mutex.
C7_Witness ==
    \E c \in Closers :
        /\ ncalls[c] = 2
        /\ closeHeldAtCall[c]
        /\ cpc[c] = "lock"
        /\ closed

\* C8: Enqueue is a synchronous handoff: an Enqueue whose send has completed
\* has had its task received by the worker, every task received earlier has
\* finished, and at most one Enqueue is blocked in its send.
C8_SynchronousHandoff ==
    /\ \A e \in HandedOff :
          /\ e \in Range(handed)
          /\ e \in Held \cup Range(finished)
          /\ \A i \in 1..(Pos(handed, e) - 1) : handed[i] \in Range(finished)
    /\ Cardinality({e \in Enqs : epc[e] = "send"}) <= 1
    /\ Cardinality(HandedOff) = Len(handed)

\* The Enqueue of the second task handed off has returned, that task is
\* held by the worker and the first task has finished.
C8_Witness ==
    /\ Len(handed) >= 2
    /\ epc[handed[2]] = "done"
    /\ handed[2] \in Held
    /\ handed[1] \in Range(finished)

\* C9: Enqueue does not wait for its own task: once the send is done, the
\* unlock-and-return step can be taken whatever the state of the task.
C9_EnqueueDoesNotAwaitTask ==
    \A e \in Enqs : epc[e] = "unlock" => ENABLED EnqUnlock(e)

\* Enqueue has returned and its own task is still running.
C9_Witness ==
    \E e \in Enqs, w \in Workers :
        /\ epc[e] = "done"
        /\ wpc[w] = "run"
        /\ cur[w] = e
        /\ e \notin Range(finished)

\* The liveness half of C10: under FairSpec (every task action returns: the
\* step LoopRunEnd is fair) the Close call that takes the mutex returns, and
\* so does the first Close call of a goroutine that is the only one to call
\* Close.
CloseEventuallyReturns ==
    /\ \A c \in Closers : (cpc[c] = "close") ~> (cpc[c] = "done")
    /\ \A c \in Closers :
          (cpc[c] = "lock" /\ \A d \in Closers \ {c} : [](cpc[d] = "idle"))
              ~> (cpc[c] = "done" \/ ncalls[c] > 1)

\* When a Close call has returned no task is held by a worker, and no task
\* is received afterwards.
CloseReturnsQuiescent ==
    (\E c \in Closers : cpc[c] = "done" \/ ncalls[c] > 1) =>
        /\ Held = {}
        /\ \A w \in Workers : wpc[w] \in {"none", "add", "range", "exited"}
        /\ closed
        /\ \A e \in Enqs : epc[e] # "send"

\* C10 (as claimed): when a Close call of the default queue has returned,
\* every goroutine started for tq.Loop has exited.
C10_CloseReturnsAfterWorkerExit ==
    \A c \in Closers : cpc[c] = "done" =>
        \A w \in Workers : wpc[w] \in {"none", "exited"}


----------------------------------------------------------------------------
\* compareExtractedPackages (src/packages/inventory_comporator.go).

\* Longest inventory handed to the comparison.
MaxInv == 2

\* type PkgInfo: Name, Arch, Version and, for the fields that are no part
\* of the identity of a package, Source.
Pkg(n, a, v, s) == [Name |-> n, Arch |-> a, Version |-> v, Source |-> s]

\* The package records of the model: two records that differ in Source
\* only, and records that differ from the first in one field of the key.
Pkgs == { Pkg("a", "x86_64", "1.0", "s1"),
          Pkg("a", "x86_64", "1.0", "s2"),
          Pkg("b", "noarch", "2.0", "s1"),
          Pkg("a", "noarch", "1.0", "s1"),
          Pkg("a", "x86_64", "2.0", "s1") }

Inventories == UNION {[1..n -> Pkgs] : n \in 0..MaxInv}

\* PkgInfo.key(): the identity key (Name, Architecture, Version).
Key(pkg) == <<pkg.Name, pkg.Arch, pkg.Version>>

\* indexByKey: results[pkg.key()] = pkg for every pkg in the order of the
\* slice, so that the last record with a key is the one the map keeps.
RECURSIVE indexByKey(_)

indexByKey(pkgs) ==
    IF pkgs = <<>>
      THEN [k \in {} |-> Pkg("", "", "", "")]
      ELSE LET n == Len(pkgs)
               results == indexByKey(SubSeq(pkgs, 1, n - 1))
           IN  [k \in DOMAIN results \cup {Key(pkgs[n])} |->
                   IF k = Key(pkgs[n]) THEN pkgs[n] ELSE results[k]]

\* ExtraKeys with the test of the loop not negated.
MutExtraKeysCommon(index, otherIndex) == DOMAIN index \cap DOMAIN otherIndex

\* The keys for which "if _, ok := otherIndex[key]; !ok" holds in the loop
\* "for key, pkg := range index".
ExtraKeys(index, otherIndex) == DOMAIN index \ DOMAIN otherIndex

\* The slices a loop "for key, pkg := range index" can build by appending
\* pkg for the keys in keys: Go ranges over a map in an unspecified order,
\* each key once.
RangeAppends(index, keys) ==
    LET n == Cardinality(keys)
        orders == {f \in [1..n -> keys] : \A i, j \in 1..n : i # j => f[i] # f[j]}
    IN  {[i \in 1..n |-> index[f[i]]] : f \in orders}

\* The loop over legacyExtractorIndex.
LegacyExtra(legacyExtractor, modernExtractor) ==
    LET legacyExtractorIndex == indexByKey(legacyExtractor)
        modernExtractorIndex == indexByKey(modernExtractor)
    IN  RangeAppends(legacyExtractorIndex,
                     ExtraKeys(legacyExtractorIndex, modernExtractorIndex))

\* The second loop ranging over legacyExtractorIndex, like the first.
MutModernExtraFromLegacy(legacyExtractor, modernExtractor) ==
    LET legacyExtractorIndex == indexByKey(legacyExtractor)
        modernExtractorIndex == indexByKey(modernExtractor)
    IN  RangeAppends(legacyExtractorIndex,
                     ExtraKeys(legacyExtractorIndex, modernExtractorIndex))

\* The loop over modernExtractorIndex.
ModernExtra(legacyExtractor, modernExtractor) ==
    LET legacyExtractorIndex == indexByKey(legacyExtractor)
        modernExtractorIndex == indexByKey(modernExtractor)
    IN  RangeAppends(modernExtractorIndex,
                     ExtraKeys(modernExtractorIndex, legacyExtractorIndex))

\* The counts taken from the index instead of the slice.
MutItemsCountOfIndex(pkgs) == Cardinality(DOMAIN indexByKey(pkgs))

\* len(legacyExtractor), len(modernExtractor)
ItemsCount(pkgs) == Len(pkgs)

\* The values compareExtractedPackages can return.
compareExtractedPackages(legacyExtractor, modernExtractor) ==
    {[called |-> TRUE,
      legacyExtractorItemsCount |-> ItemsCount(legacyExtractor),
      modernExtractorItemsCount |-> ItemsCount(modernExtractor),
      legacyExtractorExtra |-> le,
      modernExtractorExtra |-> me] :
        le \in LegacyExtra(legacyExtractor, modernExtractor),
        me \in ModernExtra(legacyExtractor, modernExtractor)}

\* Any two inventories are the arguments.
CmpInit ==
    /\ QInit
    /\ NestIdle
    /\ SanIdle
    /\ HelpIdle
    /\ ScanIdle
    /\ RunIdle
    /\ FsIdle
    /\ legacy \in Inventories
    /\ modern \in Inventories
    /\ report = NoReport

\* report := compareExtractedPackages(legacy, modern)
Compare ==
    /\ report = NoReport
    /\ report' \in compareExtractedPackages(legacy, modern)
    /\ UNCHANGED <<qvars, nestVars, sanVars, helpVars, scanVars, runVars, fsVars, legacy, modern>>

CompareSpec == CmpInit /\ [][Compare]_vars

\* The identity keys that occur in an inventory.
KeysOf(pkgs) == {Key(pkgs[i]) : i \in DOMAIN pkgs}

\* The number of places of the slice extra that hold a record with key k.
Occurrences(extra, k) == Cardinality({i \in DOMAIN extra : Key(extra[i]) = k})

\* C11: legacy-extra holds exactly one record for each key of legacy that
\* is no key of modern, and no other record; modern-extra is the mirror; a
\* key of both inventories is in neither list.  The records returned are
\* records of the inventory they are reported for.
C11_ExtraIsKeyDifference ==
    report.called =>
        LET lk == KeysOf(legacy)
            mk == KeysOf(modern)
            le == report.legacyExtractorExtra
            me == report.modernExtractorExtra
        IN  /\ \A k \in lk \ mk : Occurrences(le, k) = 1
            /\ \A k \in mk \ lk : Occurrences(me, k) = 1
            /\ \A i \in DOMAIN le : Key(le[i]) \in lk \ mk /\ le[i] \in Range(legacy)
            /\ \A i \in DOMAIN me : Key(me[i]) \in mk \ lk /\ me[i] \in Range(modern)
            /\ \A k \in lk \cap mk : Occurrences(le, k) = 0 /\ Occurrences(me, k) = 0

\* The example of the specification: legacy = [{a,x86_64,1.0}] and
\* modern = [{a,x86_64,1.0},{b,noarch,2.0}] give no legacy-extra and
\* modern-extra = [{b,noarch,2.0}].
C11_Witness ==
    /\ legacy = <<Pkg("a", "x86_64", "1.0", "s1")>>
    /\ modern = <<Pkg("a", "x86_64", "1.0", "s1"), Pkg("b", "noarch", "2.0", "s1")>>
    /\ report.called
    /\ report.legacyExtractorExtra = <<>>
    /\ report.modernExtractorExtra = <<Pkg("b", "noarch", "2.0", "s1")>>


\* Some identity key occurs at two places of the inventory.
HasRepeatedKey(pkgs) ==
    \E i, j \in DOMAIN pkgs : i # j /\ Key(pkgs[i]) = Key(pkgs[j])

\* Some identity key occurs with two different records in the inventory.
HasConflictingRecords(pkgs) ==
    \E i, j \in DOMAIN pkgs : pkgs[i] # pkgs[j] /\ Key(pkgs[i]) = Key(pkgs[j])

\* C12: the two counts are the lengths of the two inventories; for an
\* inventory with a repeated key the count is larger than the number of
\* keys of its index.
C12_CountsAreRawLengths ==
    report.called =>
        /\ report.legacyExtractorItemsCount = Len(legacy)
        /\ report.modernExtractorItemsCount = Len(modern)
        /\ HasRepeatedKey(legacy) =>
              report.legacyExtractorItemsCount > Cardinality(KeysOf(legacy))
        /\ HasRepeatedKey(modern) =>
              report.modernExtractorItemsCount > Cardinality(KeysOf(modern))
        /\ Cardinality(DOMAIN indexByKey(legacy)) = Cardinality(KeysOf(legacy))
        /\ Cardinality(DOMAIN indexByKey(modern)) = Cardinality(KeysOf(modern))

\* The legacy inventory holds the same record twice and is counted 2.
C12_Witness ==
    /\ report.called
    /\ Len(legacy) = 2
    /\ legacy[1] = legacy[2]
    /\ report.legacyExtractorItemsCount = 2
    /\ Cardinality(DOMAIN indexByKey(legacy)) = 1

\* The permutations of a sequence.
Perms(seq) ==
    LET n == Len(seq)
        orders == {f \in [1..n -> 1..n] : \A i, j \in 1..n : i # j => f[i] # f[j]}
    IN  {[i \in 1..n |-> seq[f[i]]] : f \in orders}

\* C13 (as claimed): for all permutations of the two inventories the
\* comparison returns the same counts and the same sets of records as
\* legacy-extra and as modern-extra.
C13_SameRecordsForAllOrders ==
    report.called =>
        \A l \in Perms(legacy), m \in Perms(modern) :
            \A r \in compareExtractedPackages(l, m) :
                /\ r.legacyExtractorItemsCount = report.legacyExtractorItemsCount
                /\ r.modernExtractorItemsCount = report.modernExtractorItemsCount
                /\ Range(r.legacyExtractorExtra) = Range(report.legacyExtractorExtra)
                /\ Range(r.modernExtractorExtra) = Range(report.modernExtractorExtra)

\* C13 (amended): for all permutations of the two inventories the
\* comparison returns the same counts and the same sets of identity keys as
\* legacy-extra and as modern-extra; the sets of records are the same too
\* when no inventory holds two different records with the same key.
C13_SameKeysForAllOrders ==
    report.called =>
        \A l \in Perms(legacy), m \in Perms(modern) :
            \A r \in compareExtractedPackages(l, m) :
                /\ r.legacyExtractorItemsCount = report.legacyExtractorItemsCount
                /\ r.modernExtractorItemsCount = report.modernExtractorItemsCount
                /\ KeysOf(r.legacyExtractorExtra) = KeysOf(report.legacyExtractorExtra)
                /\ KeysOf(r.modernExtractorExtra) = KeysOf(report.modernExtractorExtra)
                /\ ~HasConflictingRecords(legacy) =>
                      Range(r.legacyExtractorExtra) = Range(report.legacyExtractorExtra)
                /\ ~HasConflictingRecords(modern) =>
                      Range(r.modernExtractorExtra) = Range(report.modernExtractorExtra)

\* The legacy inventory holds two records with one key and different
\* sources, the key is legacy-extra, and the record reported is the later.
C13_Witness ==
    /\ report.called
    /\ Len(legacy) = 2
    /\ HasConflictingRecords(legacy)
    /\ report.legacyExtractorExtra = <<legacy[2]>>
    /\ modern # <<>>

\* C14: the legacy-extra set of Compare(legacy, modern) is the modern-extra
\* set of Compare(modern, legacy), the modern-extra set of the one is the
\* legacy-extra set of the other, and the counts are exchanged.
C14_Symmetric ==
    report.called =>
        \A r \in compareExtractedPackages(modern, legacy) :
            /\ Range(report.legacyExtractorExtra) = Range(r.modernExtractorExtra)
            /\ Range(report.modernExtractorExtra) = Range(r.legacyExtractorExtra)
            /\ report.legacyExtractorItemsCount = r.modernExtractorItemsCount
            /\ report.modernExtractorItemsCount = r.legacyExtractorItemsCount

\* Both sides have an extra record and the inventories differ in length.
C14_Witness ==
    /\ report.called
    /\ report.legacyExtractorExtra # <<>>
    /\ report.modernExtractorExtra # <<>>
    /\ Len(legacy) # Len(modern)

----------------------------------------------------------------------------
\* ScalibrExtractor.ExtractInventory and deconstructScanResult.  The scan
\* itself is the library's: its result is an input, a status and a list of
\* inventory records.  A record carries the kind of its metadata and whether
\* the library's ToPURL fails on it.

\* Largest number of records in a scan result.
MaxScan == 2

\* The nil error.
Nil == "nil"

\* scalibr_plugin.ScanStatus*
Statuses == {"Unspecified", "Succeeded", "PartiallySucceeded", "Failed"}

DpkgMetadata == [kind |-> "dpkg", SourceName |-> "src", SourceVersion |-> "1"]

\* Metadata of a kind other than *dpkg.Metadata.
OtherMetadata == [kind |-> "rpm"]

ScanItems ==
    {[Name |-> n, Version |-> "1", Metadata |-> DpkgMetadata, purlErr |-> e] :
        n \in {"p", "q"}, e \in BOOLEAN}
    \cup
    {[Name |-> n, Version |-> "1", Metadata |-> OtherMetadata, purlErr |-> FALSE] :
        n \in {"p", "q"}}

ScanResults ==
    {[Status |-> [Status |-> st,
                  FailureReason |-> IF st = "Succeeded" THEN "" ELSE "reason"],
      Inventories |-> invs] :
        st \in Statuses, invs \in UNION {[1..n -> ScanItems] : n \in 0..MaxScan}}

\* dpkgExtractor.ToPURL(inventory)
ToPURL(inventory) ==
    IF inventory.purlErr
    THEN [err |-> "no purl"]
    ELSE [purl |-> <<"pkg:deb", inventory.Name, inventory.Version>>, err |-> Nil]

extractAdditionalFieldsDpkg(inventory, metadata) ==
    LET source == [Name |-> metadata.SourceName, Version |-> metadata.SourceVersion]
        p == ToPURL(inventory)
    IN  IF p.err # Nil
        THEN [err |-> <<"unable to extract purl", p.err>>]
        ELSE [source |-> source, purl |-> p.purl, err |-> Nil]

inventoryFrom(inventory) ==
    IF inventory.Metadata.kind = "dpkg"
    THEN LET r == extractAdditionalFieldsDpkg(inventory, inventory.Metadata)
         IN  IF r.err # Nil
             THEN [err |-> <<"unable to extract additional fields", r.err>>]
             ELSE [item |-> [Name |-> inventory.Name, Version |-> inventory.Version,
                             Source |-> r.source, Purl |-> r.purl],
                   err |-> Nil]
    ELSE [err |-> <<"unsupported inventory item">>]

\* A record that cannot be mapped empties the list gathered so far.
MutAppendOrReset(inventories, r) ==
    IF r.err # Nil THEN <<>> ELSE Append(inventories, r.item)

\* The body of the loop: continue on an error, append otherwise.
AppendOrSkip(inventories, r) ==
    IF r.err # Nil THEN inventories ELSE Append(inventories, r.item)

\* for _, inv := range results.Inventories { ... }
RECURSIVE MapInventories(_)
MapInventories(invs) ==
    IF invs = <<>>
    THEN <<>>
    ELSE LET n == Len(invs)
         IN  AppendOrSkip(MapInventories(SubSeq(invs, 1, n - 1)), inventoryFrom(invs[n]))

\* The first test never taken.
MutScanFailedNever(scanStatus) == FALSE

\* scanStatus.Status == scalibr_plugin.ScanStatusFailed
ScanFailed(scanStatus) == scanStatus.Status = "Failed"

\* The error returned only for the status PartiallySucceeded.
MutStatusErrOnlyPartial(scanStatus) ==
    IF scanStatus.Status = "PartiallySucceeded"
    THEN <<"scan partially failed", scanStatus.FailureReason>>
    ELSE Nil

\* The error returned after the loop.
StatusErr(scanStatus) ==
    IF scanStatus.Status # "Succeeded"
    THEN <<"scan partially failed", scanStatus.FailureReason>>
    ELSE Nil

\* The nil slice is the empty sequence.
deconstructScanResult(results) ==
    LET scanStatus == results.Status
    IN  IF ScanFailed(scanStatus)
        THEN [called |-> TRUE, inventories |-> <<>>,
              err |-> <<"scan failed", scanStatus.FailureReason>>]
        ELSE [called |-> TRUE, inventories |-> MapInventories(results.Inventories),
              err |-> StatusErr(scanStatus)]

\* results := scalibr.New().Scan(ctx, cfg)
ScanInit ==
    /\ QInit
    /\ NestIdle
    /\ SanIdle
    /\ HelpIdle
    /\ CmpIdle
    /\ RunIdle
    /\ FsIdle
    /\ scan \in ScanResults
    /\ out = NoOut

\* return deconstructScanResult(results)
ExtractInventory ==
    /\ out = NoOut
    /\ out' = deconstructScanResult(scan)
    /\ UNCHANGED <<qvars, nestVars, sanVars, helpVars, cmpVars, runVars, fsVars, scan>>

ScanSpec == ScanInit /\ [][ExtractInventory]_vars

\* The record has metadata of an unsupported kind or its PURL cannot be
\* extracted.
Unmappable(inv) == inv.Metadata.kind # "dpkg" \/ inv.purlErr

\* The item a mappable record is mapped to.
ItemOf(inv) ==
    [Name |-> inv.Name, Version |-> inv.Version,
     Source |-> [Name |-> inv.Metadata.SourceName, Version |-> inv.Metadata.SourceVersion],
     Purl |-> <<"pkg:deb", inv.Name, inv.Version>>]

\* The places of the scan result that hold mappable records.
MappablePlaces == {i \in DOMAIN scan.Inventories : ~Unmappable(scan.Inventories[i])}

\* C15: when the status of the scan is Failed the result is empty and the
\* error is not nil, whatever records the scan result holds.
C15_FailedScanReturnsNothing ==
    (out.called /\ scan.Status.Status = "Failed") =>
        /\ out.err # Nil
        /\ out.inventories = <<>>

\* A failed scan that holds a mappable record returned nothing and an error.
C15_Witness ==
    /\ out.called
    /\ scan.Status.Status = "Failed"
    /\ MappablePlaces # {}
    /\ out.inventories = <<>>
    /\ out.err # Nil

\* C16: when the status is neither Succeeded nor Failed the result holds
\* the item of every mappable record and the error is not nil; the error is
\* nil only when the status is Succeeded.
C16_PartialScanReturnsItemsAndError ==
    out.called =>
        /\ scan.Status.Status \notin {"Succeeded", "Failed"} =>
              /\ out.err # Nil
              /\ Len(out.inventories) = Cardinality(MappablePlaces)
              /\ \A i \in MappablePlaces :
                    ItemOf(scan.Inventories[i]) \in Range(out.inventories)
        /\ out.err = Nil => scan.Status.Status = "Succeeded"

\* A scan of unspecified status with two mappable records returned both
\* items and an error.
C16_Witness ==
    /\ out.called
    /\ scan.Status.Status = "Unspecified"
    /\ Cardinality(MappablePlaces) = 2
    /\ Len(out.inventories) = 2
    /\ out.err # Nil

\* C17: unless the scan failed, the result is the items of the mappable
\* records in the order of the scan result, the other records left out; the
\* result is never longer than the scan result.
C17_UnmappableSkipped ==
    out.called =>
        /\ Len(out.inventories) <= Len(scan.Inventories)
        /\ scan.Status.Status # "Failed" =>
              \E f \in [DOMAIN out.inventories -> DOMAIN scan.Inventories] :
                  /\ \A i, j \in DOMAIN f : i < j => f[i] < f[j]
                  /\ {f[i] : i \in DOMAIN f} = MappablePlaces
                  /\ \A i \in DOMAIN f : out.inventories[i] = ItemOf(scan.Inventories[f[i]])

\* A mappable record followed by one whose PURL cannot be extracted: the
\* first is returned alone.
C17_Witness ==
    /\ out.called
    /\ scan.Status.Status = "Succeeded"
    /\ Len(scan.Inventories) = 2
    /\ ~Unmappable(scan.Inventories[1])
    /\ scan.Inventories[2].Metadata.kind = "dpkg"
    /\ scan.Inventories[2].purlErr
    /\ out.inventories = <<ItemOf(scan.Inventories[1])>>
    /\ out.err = Nil

----------------------------------------------------------------------------
\* DefaultRunner.Run(ctx, cmd): attach a buffer to each output stream of the
\* command, start it, wait for it, and return the two buffers and the error
\* of the wait.  The process is an environment: once started it writes any
\* bytes to either stream and exits with any code.

\* Largest number of bytes a process writes to one stream.
MaxOut == 2

\* Largest exit code.
MaxExit == 2

Bytes == {"a", "b"}

ExitCodes == 0..MaxExit

\* A command whose binary is on the PATH and one whose binary is not.
Cmds == {[Path |-> "bash", found |-> TRUE],
         [Path |-> "does_not_exists", found |-> FALSE]}

\* exec: "<name>": executable file not found in $PATH
NotFoundErr(name) == <<"exec", name, "executable file not found in $PATH">>

\* Any non-zero exit reported as exit status 1.
MutWaitErrStatusOne(code) == IF code = 0 THEN Nil ELSE <<"exit status", 1>>

\* The error of waiting for a process that exited with the given code.
WaitErr(code) == IF code = 0 THEN Nil ELSE <<"exit status", code>>

RunInit ==
    /\ QInit
    /\ NestIdle
    /\ SanIdle
    /\ HelpIdle
    /\ CmpIdle
    /\ ScanIdle
    /\ FsIdle
    /\ cmd \in Cmds
    /\ proc = NoProc
    /\ bufs = NoBufs
    /\ ret = NoRet

\* The binary is not found: Run returns the error and the untouched buffers.
StartNotFound ==
    /\ ~ret.called
    /\ proc.pc = "none"
    /\ ~cmd.found
    /\ ret' = [called |-> TRUE, stdout |-> bufs.stdout, stderr |-> bufs.stderr,
               err |-> NotFoundErr(cmd.Path)]
    /\ UNCHANGED <<qvars, nestVars, sanVars, helpVars, cmpVars, scanVars, fsVars, cmd, proc, bufs>>

\* The process is started.
Start ==
    /\ ~ret.called
    /\ proc.pc = "none"
    /\ cmd.found
    /\ proc' = [proc EXCEPT !.pc = "running"]
    /\ UNCHANGED <<qvars, nestVars, sanVars, helpVars, cmpVars, scanVars, fsVars, cmd, bufs, ret>>

\* The process writes a byte to its standard output; the byte is copied
\* to the buffer.
WriteStdout ==
    /\ proc.pc = "running"
    /\ Len(proc.out) < MaxOut
    /\ \E b \in Bytes :
          /\ proc' = [proc EXCEPT !.out = Append(@, b)]
          /\ bufs' = [bufs EXCEPT !.stdout = Append(@, b)]
    /\ UNCHANGED <<qvars, nestVars, sanVars, helpVars, cmpVars, scanVars, fsVars, cmd, ret>>

\* The process writes a byte to its standard error.
WriteStderr ==
    /\ proc.pc = "running"
    /\ Len(proc.err) < MaxOut
    /\ \E b \in Bytes :
          /\ proc' = [proc EXCEPT !.err = Append(@, b)]
          /\ bufs' = [bufs EXCEPT !.stderr = Append(@, b)]
    /\ UNCHANGED <<qvars, nestVars, sanVars, helpVars, cmpVars, scanVars, fsVars, cmd, ret>>

\* The process exits.
Exit ==
    /\ proc.pc = "running"
    /\ \E n \in ExitCodes : proc' = [proc EXCEPT !.pc = "exited", !.code = n]
    /\ UNCHANGED <<qvars, nestVars, sanVars, helpVars, cmpVars, scanVars, fsVars, cmd, bufs, ret>>

\* The wait is over: Run returns the buffers and the error of the wait.
Wait ==
    /\ ~ret.called
    /\ proc.pc = "exited"
    /\ ret' = [called |-> TRUE, stdout |-> bufs.stdout, stderr |-> bufs.stderr,
               err |-> WaitErr(proc.code)]
    /\ UNCHANGED <<qvars, nestVars, sanVars, helpVars, cmpVars, scanVars, fsVars, cmd, proc, bufs>>

RunNext ==
    \/ StartNotFound
    \/ Start
    \/ WriteStdout
    \/ WriteStderr
    \/ Exit
    \/ Wait

RunSpec == RunInit /\ [][RunNext]_vars

\* C18: when the process exited with a non-zero code N, Run returns the
\* error "exit status N" and, as stdout and stderr, exactly the bytes the
\* process wrote; when the binary was not found it returns the error
\* "executable file not found" and two empty streams; the two errors differ.
C18_NonZeroExitReported ==
    ret.called =>
        /\ (proc.pc = "exited" /\ proc.code # 0) =>
              /\ ret.err = <<"exit status", proc.code>>
              /\ ret.stdout = proc.out
              /\ ret.stderr = proc.err
              /\ ret.err # NotFoundErr(cmd.Path)
        /\ ~cmd.found =>
              /\ ret.err = NotFoundErr(cmd.Path)
              /\ ret.stdout = <<>>
              /\ ret.stderr = <<>>
              /\ ret.err[1] # "exit status"
        /\ (ret.err # Nil /\ ret.err[1] = "exit status") <=>
              (proc.pc = "exited" /\ proc.code # 0)

\* A process that wrote to its standard error only and exited with code 2.
C18_Witness ==
    /\ ret.called
    /\ proc.code = 2
    /\ proc.out = <<>>
    /\ proc.err # <<>>
    /\ ret.stdout = <<>>
    /\ ret.stderr = proc.err
    /\ ret.err = <<"exit status", 2>>

----------------------------------------------------------------------------
\* AtomicWrite(path, content, mode): create a temporary file next to the
\* target, write the content to it, set its permissions, rename it onto the
\* target.  The file system is an environment: creating the file, writing
\* to it and renaming it may each fail.  A read of the path may happen at
\* any moment.

\* Largest length of the content of a call.
MaxContent == 2

\* The contents of the calls: a byte repeated up to MaxContent times.
Contents == {[i \in 1..n |-> b] : n \in 0..MaxContent, b \in Bytes}

\* The content of the path before the calls, when it exists.
PriorData == <<"o", "l", "d">>

\* The error of a failed system call.
Fault(op, cause) == [op |-> op, cause |-> cause]

\* unable to create temp file: <cause>
CreateErr(fault) == [op |-> "wrap", msg |-> "unable to create temp file", cause |-> fault]

WriteInit ==
    /\ QInit
    /\ NestIdle
    /\ SanIdle
    /\ HelpIdle
    /\ CmpIdle
    /\ ScanIdle
    /\ RunIdle
    /\ prior \in {NoFile, File(PriorData)}
    /\ target = prior
    /\ tmp = [w \in Writers |-> NoFile]
    /\ wr = [w \in Writers |-> IdleWriter]
    /\ lastRename = 0
    /\ seen = NotRead

\* AtomicWrite(path, content, mode) is called.
AtomicWriteCall(w) ==
    /\ wr[w].pc = "idle"
    /\ \E c \in Contents : wr' = [wr EXCEPT ![w].pc = "create", ![w].content = c]
    /\ UNCHANGED <<qvars, nestVars, sanVars, helpVars, cmpVars, scanVars, runVars, prior, target, tmp, lastRename, seen>>

\* The temporary file is created, empty.
CreateTemp(w) ==
    /\ wr[w].pc = "create"
    /\ tmp' = [tmp EXCEPT ![w] = File(<<>>)]
    /\ wr' = [wr EXCEPT ![w].pc = "write", ![w].creates = @ + 1]
    /\ UNCHANGED <<qvars, nestVars, sanVars, helpVars, cmpVars, scanVars, runVars, prior, target, lastRename, seen>>

\* The temporary file cannot be created: the call returns the error.
CreateTempFail(w) ==
    /\ wr[w].pc = "create"
    /\ LET fault == Fault("open", "permission denied")
       IN  wr' = [wr EXCEPT ![w].pc = "done", ![w].creates = @ + 1,
                            ![w].fault = fault, ![w].err = CreateErr(fault)]
    /\ UNCHANGED <<qvars, nestVars, sanVars, helpVars, cmpVars, scanVars, runVars, prior, target, tmp, lastRename, seen>>

\* The next byte of the content is written to the target itself.
MutWriteByteInPlace(w) ==
    /\ wr[w].pc = "write"
    /\ Len(tmp[w].data) < Len(wr[w].content)
    /\ LET next == wr[w].content[Len(tmp[w].data) + 1]
       IN  /\ tmp' = [tmp EXCEPT ![w] = File(Append(tmp[w].data, next))]
           /\ target' = File(Append(tmp[w].data, next))
    /\ UNCHANGED <<qvars, nestVars, sanVars, helpVars, cmpVars, scanVars, runVars, prior, wr, lastRename, seen>>

\* The next byte of the content is written to the temporary file.
WriteByte(w) ==
    /\ wr[w].pc = "write"
    /\ Len(tmp[w].data) < Len(wr[w].content)
    /\ LET next == wr[w].content[Len(tmp[w].data) + 1]
       IN  tmp' = [tmp EXCEPT ![w] = File(Append(tmp[w].data, next))]
    /\ UNCHANGED <<qvars, nestVars, sanVars, helpVars, cmpVars, scanVars, runVars, prior, target, wr, lastRename, seen>>

\* The write fails and what was written is renamed onto the target.
MutWriteFailRenames(w) ==
    /\ wr[w].pc = "write"
    /\ Len(tmp[w].data) < Len(wr[w].content)
    /\ LET fault == Fault("write", "no space left on device")
       IN  wr' = [wr EXCEPT ![w].pc = "done", ![w].fault = fault, ![w].err = fault]
    /\ target' = tmp[w]
    /\ UNCHANGED <<qvars, nestVars, sanVars, helpVars, cmpVars, scanVars, runVars, prior, tmp, lastRename, seen>>

\* The write fails before the content is complete: the call returns the
\* error.
WriteFail(w) ==
    /\ wr[w].pc = "write"
    /\ Len(tmp[w].data) < Len(wr[w].content)
    /\ LET fault == Fault("write", "no space left on device")
       IN  wr' = [wr EXCEPT ![w].pc = "done", ![w].fault = fault, ![w].err = fault]
    /\ UNCHANGED <<qvars, nestVars, sanVars, helpVars, cmpVars, scanVars, runVars, prior, target, tmp, lastRename, seen>>

\* The content is complete: the permissions of the temporary file are set.
Chmod(w) ==
    /\ wr[w].pc = "write"
    /\ Len(tmp[w].data) = Len(wr[w].content)
    /\ wr' = [wr EXCEPT ![w].pc = "rename"]
    /\ UNCHANGED <<qvars, nestVars, sanVars, helpVars, cmpVars, scanVars, runVars, prior, target, tmp, lastRename, seen>>

\* The rename leaves a file that is already at the path in place.
MutRenameKeepsExisting(w) ==
    /\ wr[w].pc = "rename"
    /\ target' = IF target.exists THEN target ELSE tmp[w]
    /\ tmp' = [tmp EXCEPT ![w] = NoFile]
    /\ lastRename' = w
    /\ wr' = [wr EXCEPT ![w].pc = "done", ![w].renames = @ + 1]
    /\ UNCHANGED <<qvars, nestVars, sanVars, helpVars, cmpVars, scanVars, runVars, prior, seen>>

\* The temporary file is renamed onto the target: the call returns nil.
Rename(w) ==
    /\ wr[w].pc = "rename"
    /\ target' = tmp[w]
    /\ tmp' = [tmp EXCEPT ![w] = NoFile]
    /\ lastRename' = w
    /\ wr' = [wr EXCEPT ![w].pc = "done", ![w].renames = @ + 1]
    /\ UNCHANGED <<qvars, nestVars, sanVars, helpVars, cmpVars, scanVars, runVars, prior, seen>>

\* The rename fails: the call returns the error.
RenameFail(w) ==
    /\ wr[w].pc = "rename"
    /\ LET fault == Fault("rename", "permission denied")
       IN  wr' = [wr EXCEPT ![w].pc = "done", ![w].renames = @ + 1,
                            ![w].fault = fault, ![w].err = fault]
    /\ UNCHANGED <<qvars, nestVars, sanVars, helpVars, cmpVars, scanVars, runVars, prior, target, tmp, lastRename, seen>>

\* os.ReadFile(path) by any process.
ReadFile ==
    /\ seen' = [called |-> TRUE, got |-> target, after |-> lastRename]
    /\ UNCHANGED <<qvars, nestVars, sanVars, helpVars, cmpVars, scanVars, runVars, prior, target, tmp, wr, lastRename>>

WriteNext ==
    \/ \E w \in Writers : AtomicWriteCall(w)
    \/ \E w \in Writers : CreateTemp(w)
    \/ \E w \in Writers : CreateTempFail(w)
    \/ \E w \in Writers : WriteByte(w)
    \/ \E w \in Writers : WriteFail(w)
    \/ \E w \in Writers : Chmod(w)
    \/ \E w \in Writers : Rename(w)
    \/ \E w \in Writers : RenameFail(w)
    \/ ReadFile

WriteSpec == WriteInit /\ [][WriteNext]_vars

\* The call has returned nil.
Succeeded(w) == wr[w].pc = "done" /\ wr[w].err = NoFault

\* The call has returned an error.
Failed(w) == wr[w].pc = "done" /\ wr[w].err # NoFault

\* The complete prior content of the path and the complete contents of the
\* calls that have succeeded.
Complete == {prior} \cup {File(wr[w].content) : w \in {v \in Writers : Succeeded(v)}}

\* C19: the path holds at every moment, and every read of it returns, the
\* complete prior content or the complete content of a call that has
\* succeeded; after a call has succeeded the path holds, and a read
\* returns, exactly its content until another call renames onto the path.
C19_NeverPartial ==
    /\ target \in Complete
    /\ \A w \in Writers :
          (Succeeded(w) /\ lastRename = w) => target = File(wr[w].content)
    /\ seen.called =>
          /\ seen.got \in Complete
          /\ seen.after # 0 => seen.got = File(wr[seen.after].content)
          /\ seen.after = 0 => seen.got = prior

\* A read made before the rename of call 1 returned the prior content; the
\* call has succeeded and the path holds its content, two bytes long.
C19_Witness ==
    /\ prior = File(PriorData)
    /\ Succeeded(1)
    /\ Len(wr[1].content) = 2
    /\ target = File(wr[1].content)
    /\ seen.called
    /\ seen.got = prior
    /\ seen.after = 0
    /\ lastRename = 1

Called(w) == wr[w].pc # "idle"

\* C21: with concurrent calls the path holds at every moment the complete
\* prior content or the complete content of one of the calls, and once all
\* the calls have succeeded it holds the content of the call whose rename
\* came last.
C21_ConcurrentWritesAtomic ==
    /\ target \in {prior} \cup {File(wr[w].content) : w \in {v \in Writers : Called(v)}}
    /\ (\A w \in Writers : Succeeded(w)) =>
          /\ lastRename \in Writers
          /\ target = File(wr[lastRename].content)

\* Two calls with different contents have both succeeded; a read between
\* the two renames returned the content of call 2, and the path holds the
\* content of call 1, whose rename came last.
C21_Witness ==
    /\ Succeeded(1)
    /\ Succeeded(2)
    /\ wr[1].content = <<"a", "a">>
    /\ wr[2].content = <<"b">>
    /\ seen.called
    /\ seen.after = 2
    /\ seen.got = File(wr[2].content)
    /\ lastRename = 1
    /\ target = File(wr[1].content)

----------------------------------------------------------------------------
\* SanitizePath(path).  A path is a sequence of tokens, each a path
\* separator or a segment; the function works on the tokens.

\* Largest number of segments of a path.
MaxSegs == 3

Sep == "/"

\* The parent-directory traversal segment.
Parent == ".."

SegNames == {Parent, "x", "test.yaml"}

\* The segments joined by separators.
RECURSIVE Join(_)
Join(segs) ==
    IF Len(segs) <= 1
    THEN segs
    ELSE <<segs[1], Sep>> \o Join(Tail(segs))

\* The path with the given segments, absolute or relative.
Format(abs, segs) == (IF abs THEN <<Sep>> ELSE <<>>) \o Join(segs)

Paths ==
    {Format(abs, segs) :
        abs \in BOOLEAN, segs \in UNION {[1..n -> SegNames] : n \in 0..MaxSegs}}

RECURSIVE StripLeading(_)

\* Only the first traversal segment is removed.
MutStripFirstOnly(p) ==
    IF p # <<>> /\ p[1] = Parent
    THEN SubSeq(p, 3, Len(p))
    ELSE p

\* The traversal segments at the front of a relative path, each with the
\* separator after it, removed.
StripLeading(p) ==
    IF p # <<>> /\ p[1] = Parent
    THEN StripLeading(SubSeq(p, 3, Len(p)))
    ELSE p

SanitizePath(p) ==
    IF p # <<>> /\ p[1] = Sep
    THEN <<Sep>> \o StripLeading(Tail(p))
    ELSE StripLeading(p)

SanInit ==
    /\ QInit
    /\ NestIdle
    /\ CmpIdle
    /\ ScanIdle
    /\ RunIdle
    /\ FsIdle
    /\ HelpIdle
    /\ path \in Paths
    /\ sanitized = NoSan

\* result := SanitizePath(tt.input)
Sanitize ==
    /\ sanitized = NoSan
    /\ sanitized' = [called |-> TRUE, result |-> SanitizePath(path)]
    /\ UNCHANGED <<qvars, nestVars, cmpVars, scanVars, runVars, fsVars, helpVars, path>>

SanSpec == SanInit /\ [][Sanitize]_vars

\* The path starts with a separator.
IsAbs(p) == p # <<>> /\ p[1] = Sep

\* The segments of a path.
Split(p) == SelectSeq(p, LAMBDA t : t # Sep)

\* The number of traversal segments at the front of a list of segments.
Leading(segs) ==
    CHOOSE n \in 0..Len(segs) :
        /\ \A i \in 1..n : segs[i] = Parent
        /\ n = Len(segs) \/ segs[n + 1] # Parent

\* C22: the result has the segments of the path without its N leading
\* traversal segments, in the same order and with the traversal segments
\* further on among them, and starts with a separator exactly when the path
\* does; a path with no leading traversal segment is returned unchanged.
C22_LeadingTraversalRemoved ==
    sanitized.called =>
        LET segs == Split(path)
            n == Leading(segs)
            rest == SubSeq(segs, n + 1, Len(segs))
        IN  /\ sanitized.result = Format(IsAbs(path), rest)
            /\ Split(sanitized.result) = rest
            /\ IsAbs(sanitized.result) = IsAbs(path)
            /\ n = 0 => sanitized.result = path

\* /../x/.. is returned as /x/..
C22_Witness ==
    /\ path = <<Sep, Parent, Sep, "x", Sep, Parent>>
    /\ sanitized.called
    /\ sanitized.result = <<Sep, "x", Sep, Parent>>

----------------------------------------------------------------------------
\* run(ctx, cmd, args) of package packages and the package variable runner.
\* A command runner is what its Run returns: stdout, stderr and an error.

\* The nil error of a runner.
NoErr == [msg |-> "nil", code |-> 0]

RunErrs ==
    {NoErr, [msg |-> "bad error", code |-> 0]}
    \cup {[msg |-> "exit status", code |-> n] : n \in 1..MaxExit}

Outs == UNION {[1..n -> Bytes] : n \in 0..MaxOut}

Runners ==
    {[set |-> TRUE, stdout |-> o, stderr |-> e, err |-> x] :
        o \in Outs, e \in Outs, x \in RunErrs}

HelperCmds == {"rpmquery", "dpkg-query"}

HelperArgs == {<<>>, <<"-a">>}

\* exec.CommandContext(ctx, cmd, args...)
Command(name, args) == [Path |-> name, Args |-> <<name>> \o args]

\* The nil slice and a slice of bytes.
NilSlice == [nil |-> TRUE]

Slice(bytes) == [nil |-> FALSE, bytes |-> bytes]

\* The stdout returned with the error, and the error without the streams.
MutRunResultKeepsStdout(name, args, resp) ==
    IF resp.err # NoErr
    THEN [called |-> TRUE, stdout |-> Slice(resp.stdout),
          err |-> [msg |-> "error running", cmd |-> name, args |-> args,
                   cause |-> resp.err]]
    ELSE [called |-> TRUE, stdout |-> Slice(resp.stdout), err |-> NoErr]

\* What run returns for what runner.Run returned.
runResult(name, args, resp) ==
    IF resp.err # NoErr
    THEN [called |-> TRUE, stdout |-> NilSlice,
          err |-> [msg |-> "error running", cmd |-> name, args |-> args,
                   cause |-> resp.err, stdout |-> resp.stdout,
                   stderr |-> resp.stderr]]
    ELSE [called |-> TRUE, stdout |-> Slice(resp.stdout), err |-> NoErr]

\* runner = util.CommandRunner(&util.DefaultRunner{})
HelpInit ==
    /\ QInit
    /\ NestIdle
    /\ CmpIdle
    /\ ScanIdle
    /\ RunIdle
    /\ FsIdle
    /\ SanIdle
    /\ runner \in Runners
    /\ hcall = NoCall
    /\ invoked = <<>>
    /\ hret = NoHRet

\* SetCommandRunner(commandRunner), before run is called.
SetCommandRunner ==
    /\ hcall.pc = "idle"
    /\ \E commandRunner \in Runners \ {runner} : runner' = commandRunner
    /\ UNCHANGED <<qvars, nestVars, cmpVars, scanVars, runVars, fsVars, sanVars, hcall, invoked, hret>>

\* run is called and calls runner.Run(ctx, exec.CommandContext(ctx, cmd, args...)).
RunnerRun ==
    /\ hcall.pc = "idle"
    /\ \E name \in HelperCmds, args \in HelperArgs :
          /\ invoked' = Append(invoked, [runner |-> runner, cmd |-> Command(name, args)])
          /\ hcall' = [pc |-> "ran", cmd |-> name, args |-> args,
                       resp |-> [stdout |-> runner.stdout, stderr |-> runner.stderr,
                                 err |-> runner.err]]
    /\ UNCHANGED <<qvars, nestVars, cmpVars, scanVars, runVars, fsVars, sanVars, runner, hret>>

\* run returns.
RunReturn ==
    /\ hcall.pc = "ran"
    /\ hret' = runResult(hcall.cmd, hcall.args, hcall.resp)
    /\ hcall' = [hcall EXCEPT !.pc = "done"]
    /\ UNCHANGED <<qvars, nestVars, cmpVars, scanVars, runVars, fsVars, sanVars, runner, invoked>>

HelpNext ==
    \/ SetCommandRunner
    \/ RunnerRun
    \/ RunReturn

HelpSpec == HelpInit /\ [][HelpNext]_vars

\* C23: when run has returned, Run has been called once, on the installed
\* runner and with the command of the call; if the runner returned an error,
\* run returned the nil slice and an error that holds the command name, the
\* arguments, the runner's error, its stdout and its stderr; otherwise run
\* returned the runner's stdout and the nil error.
C23_RunWrapsRunnerError ==
    hret.called =>
        /\ invoked = <<[runner |-> runner, cmd |-> Command(hcall.cmd, hcall.args)]>>
        /\ runner.err # NoErr =>
              /\ hret.stdout = NilSlice
              /\ hret.err # NoErr
              /\ hret.err.cmd = hcall.cmd
              /\ hret.err.args = hcall.args
              /\ hret.err.cause = runner.err
              /\ hret.err.stdout = runner.stdout
              /\ hret.err.stderr = runner.stderr
        /\ runner.err = NoErr =>
              /\ hret.stdout = Slice(runner.stdout)
              /\ hret.err = NoErr

\* The runner returned bytes on both streams and "bad error": run returned
\* the nil slice and the error that holds them.
C23_Witness ==
    /\ hret.called
    /\ runner.err.msg = "bad error"
    /\ runner.stdout # <<>>
    /\ runner.stderr # <<>>
    /\ hcall.args = <<"-a">>
    /\ hret.stdout = NilSlice
    /\ hret.err.cause = runner.err
    /\ hret.err.stdout = runner.stdout
    /\ hret.err.stderr = runner.stderr

----------------------------------------------------------------------------
\* A task that calls Enqueue or Close of the default queue from inside its
\* action: the call is made by the worker goroutine w that runs the task,
\* and t.run() returns only after the call has returned.  The steps that
\* would complete such a call are those of any call: the send needs a
\* goroutine receiving from tq.tc, tq.wg.Wait() needs the counter at zero.

\* t.run() calls Enqueue; once has fired, the call goes on to tq.mx.Lock().
NestedEnqCall(w) ==
    /\ wpc[w] = "run"
    /\ npc[w] = "none"
    /\ npc' = [npc EXCEPT ![w] = "lock"]
    /\ nestStart' = [nestStart EXCEPT ![w] = started]
    /\ UNCHANGED <<qvars, nonQueue>>

\* tq.mx.Lock() of the Enqueue called by the task; the call is then at its
\* send.
NestedEnqLock(w) ==
    /\ npc[w] = "lock"
    /\ mx = Free
    /\ mx' = <<"task", w>>
    /\ npc' = [npc EXCEPT ![w] = "send"]
    /\ UNCHANGED <<nonQueue, nestStart, epc, cpc, ncalls, wpc, cur, closed, wg, onceDone,
                   started, finished, hist, handed>>

\* t.run() calls Close.
NestedCloseCall(w) ==
    /\ wpc[w] = "run"
    /\ npc[w] = "none"
    /\ npc' = [npc EXCEPT ![w] = "clock"]
    /\ nestStart' = [nestStart EXCEPT ![w] = started]
    /\ UNCHANGED <<qvars, nonQueue>>

\* tq.mx.Lock() of the Close called by the task.
NestedCloseLock(w) ==
    /\ npc[w] = "clock"
    /\ mx = Free
    /\ mx' = <<"taskclose", w>>
    /\ npc' = [npc EXCEPT ![w] = "close"]
    /\ UNCHANGED <<nonQueue, nestStart, epc, cpc, ncalls, wpc, cur, closed, wg, onceDone,
                   started, finished, hist, handed>>

\* close(tq.tc) of the Close called by the task; the call is then at
\* tq.wg.Wait().
NestedCloseChan(w) ==
    /\ npc[w] = "close"
    /\ closed' = TRUE
    /\ npc' = [npc EXCEPT ![w] = "wait"]
    /\ UNCHANGED <<nonQueue, nestStart, epc, cpc, ncalls, wpc, cur, mx, wg, onceDone,
                   started, finished, hist, handed>>

\* t.run() returns while the call it made is pending, as if the task had
\* made the call in a goroutine of its own.
MutTaskReturnDetached(w) == LoopRunEnd(w)

\* t.run() returns: the task has made no call that is pending.
TaskReturn(w) ==
    /\ npc[w] = "none"
    /\ LoopRunEnd(w)

ReentrantNext ==
    \/ \E e \in Enqs : EnqCall(e)
    \/ \E e \in Enqs : OnceDo(e)
    \/ \E e \in Enqs : EnqLock(e)
    \/ \E e \in Enqs, w \in Workers : Handoff(e, w)
    \/ \E e \in Enqs : EnqUnlock(e)
    \/ \E c \in Closers : CloseCall(c)
    \/ \E c \in Closers : CloseLock(c)
    \/ \E c \in Closers : CloseChan(c)
    \/ \E c \in Closers : CloseWait(c)
    \/ \E w \in Workers : LoopAdd(w)
    \/ \E w \in Workers : LoopRunStart(w)
    \/ \E w \in Workers : TaskReturn(w)
    \/ \E w \in Workers : LoopExit(w)
    \/ \E w \in Workers : NestedEnqCall(w)
    \/ \E w \in Workers : NestedEnqLock(w)
    \/ \E w \in Workers : NestedCloseCall(w)
    \/ \E w \in Workers : NestedCloseLock(w)
    \/ \E w \in Workers : NestedCloseChan(w)

ReentrantSpec == Init /\ [][ReentrantNext]_vars

\* C24: while a call of Enqueue or Close made by a task is pending, the
\* worker is inside that task (it has neither returned from it nor exited)
\* and no task has started since the call; the call cannot be completed:
\* at its send the channel is open and no goroutine is receiving from it,
\* at close(tq.tc) the channel is open, at tq.wg.Wait() the counter is not
\* zero.
C24_ReentrantCallNeverReturns ==
    \A w \in Workers :
        npc[w] # "none" =>
            /\ wpc[w] = "run"
            /\ cur[w] \notin Range(finished)
            /\ started = nestStart[w]
            /\ npc[w] = "send" => (~closed /\ \A v \in Workers : wpc[v] # "range")
            /\ npc[w] = "close" => ~closed
            /\ npc[w] = "wait" => wg > 0

\* The task of the first Enqueue call called Enqueue and is at its send,
\* holding tq.mx; the second Enqueue call and a Close call wait for tq.mx.
C24_Witness ==
    \E w \in Workers :
        /\ npc[w] = "send"
        /\ cur[w] = 1
        /\ mx = <<"task", w>>
        /\ epc[2] = "lock"
        /\ cpc[1] = "lock"
        /\ started = <<1>>

----------------------------------------------------------------------------
\* Enqueue racing with Close.

\* A Close call is past tq.mx.Lock().
CloseHolds == \E c \in Closers : mx = <<"close", c>>

\* A Close call has returned.
CloseReturned == \E c \in Closers : cpc[c] = "done" \/ ncalls[c] > 1

\* Enqueue calls that have not taken tq.mx.
BeforeLock == {e \in Enqs : epc[e] \in {"idle", "once", "lock"}}

\* C25: once a Close call holds tq.mx it holds it for ever; every Enqueue
\* call has then either returned, its task handed to the worker, or not
\* taken the mutex, and such a call never takes it and its task is never
\* handed over or started.  Nothing is handed over once the channel is
\* closed.  When a Close call has returned, the task of every Enqueue call
\* that took the mutex has finished, and no task starts from then on.
C25_NoTaskAfterClose ==
    /\ [](CloseHolds =>
            \A e \in Enqs :
                \/ epc[e] = "done" /\ e \in Range(handed)
                \/ /\ e \in BeforeLock
                   /\ e \notin Range(handed)
                   /\ e \notin Range(started))
    /\ [](CloseReturned =>
            /\ CloseHolds
            /\ \A e \in Enqs \ BeforeLock : e \in Range(finished))
    /\ [][/\ CloseHolds =>
                /\ mx' = mx
                /\ \A e \in BeforeLock : epc'[e] \in {"idle", "once", "lock"}
          /\ closed => handed' = handed
          /\ CloseReturned => started' = started]_vars

\* Two Enqueue calls raced with Close: the first took the mutex before
\* Close did and its task has finished; the second, called before Close
\* took the mutex, waits for it; Close has returned.
C25_Witness ==
    /\ cpc[1] = "done"
    /\ epc[1] = "done"
    /\ finished = <<1>>
    /\ epc[2] = "lock"
    /\ ~closedAtCall[2]
    /\ ~closeHeldAtCall[1]
    /\ started = <<1>>

====
